---- MODULE Spec2Model ----
(***************************************************************************)
(* SalonFlow: the list pages (Products, Financial, Clients), the remote    *)
(* tables they talk to, and the worker's REST routes, as state machines.   *)
(*                                                                         *)
(* A page is a React component: its useState cells are the variables, each *)
(* handler is an action, and every `await` on the remote service splits    *)
(* the handler in two: the part that issues the request and the part that  *)
(* runs when the response arrives.  Requests in flight are the sequence    *)
(* `ops`, in issue order; the service handles them in any order.  One page *)
(* is mounted per specification, so the cells every page declares under    *)
(* the same name (loading, error, isModalOpen, ...) are shared variables.  *)
(***************************************************************************)
EXTENDS Integers, Sequences, FiniteSets, TLC

VARIABLES
  user,               \* useSupabaseAuth().user: NoUser or an owner id
  mounted,            \* the page component is mounted
  loading,            \* useState(true)
  error,              \* useState<string | null>(null); Clients has no such cell
  isModalOpen,        \* useState(false)
  isConfirmModalOpen, \* useState(false); Clients has no such cell
  isSubmitting,       \* react-hook-form formState.isSubmitting
  formErrors,         \* the form shows a validation message
  products,           \* Products: useState<ProductType[]>([])
  editingProduct,     \* Products: useState<ProductType | null>(null)
  productToDelete,    \* Products: useState<number | null>(null)
  entries,            \* Financial: useState<FinancialEntryType[]>([])
  kpis,               \* Financial: useState({monthlyRevenue, monthlyExpenses, netProfit})
  editingEntry,       \* Financial: useState<FinancialEntryType | null>(null)
  entryToDelete,      \* Financial: useState<number | null>(null)
  clients,            \* Clients: useState<ClientType[]>([])
  editingClient,      \* Clients: useState<ClientType | null>(null)
  ops,                \* requests in flight to the remote service, oldest first
  seq,                \* number of awaits on the remote service so far
  db,                 \* the backing store's tables, all owners together
  response,           \* worker: the last HTTP response sent
  ackedDeletes,       \* history: ids whose remote delete was acknowledged to the page
  staleWrite,         \* history: the last fetch applied was issued before one applied earlier
  dashboard,          \* Dashboard: kpis, weeklyEarnings, popularServices, professionalPerformance
  form,               \* Products: the price field of the react-hook-form, a decimal
  sent,               \* Products: productData.price of the last submit, in cents
  rendered,           \* Products: the last table row rendered: price text and low-stock badge
  business_settings,  \* the business_settings table, all owners together
  requests            \* worker: POST /api/settings/business requests between their two statements

pageVars == <<loading, error, isModalOpen, isConfirmModalOpen, isSubmitting, formErrors>>
productsVars == <<products, editingProduct, productToDelete>>
financialVars == <<entries, kpis, editingEntry, entryToDelete>>
clientsVars == <<clients, editingClient>>
histVars == <<ackedDeletes, staleWrite>>
metricsVars == <<dashboard, form, sent, rendered>>
settingsVars == <<business_settings, requests>>

vars == <<user, mounted, pageVars, productsVars, financialVars, clientsVars, ops, seq,
          db, response, histVars, metricsVars, settingsVars>>

\* ---------------------------------------------------------------- bounds
MaxOps == 3        \* awaits on the remote service in one run
MaxId == 4         \* largest row id the backing store assigns

\* ---------------------------------------------------------------- values
Owners == {"A", "B"}
NoUser == "none"
Null == "null"
Names == {"a", "b"}
NameRank == [a |-> 1, b |-> 2]

Product(i, u, n, p) == [id |-> i, user_id |-> u, name |-> n, price |-> p]

NoProduct == Product(0, NoUser, "", 0)

FinancialEntry(i, u, a, t, d) ==
  [id |-> i, user_id |-> u, amount |-> a, type |-> t, entry_date |-> d]

NoEntry == FinancialEntry(0, NoUser, 0, "", 0)

Client(i, u, n) == [id |-> i, user_id |-> u, name |-> n]

NoClient == Client(0, NoUser, "")

\* A calendar date is the number MMDD; the month of a date is MM.
MonthOf(d) == d \div 100

\* new Date().toISOString(): the day the run happens on.
Today == 1103

\* The rows the tables start with: two owners' records in each.
SeedProducts == {Product(1, "A", "a", 100), Product(2, "A", "b", 250),
                 Product(3, "B", "a", 100)}

SeedEntries == {FinancialEntry(1, "A", 500, "receita", 1102),
                FinancialEntry(2, "A", 700, "despesa", 1020),
                FinancialEntry(3, "B", 100, "receita", 1101)}

SeedClients == {Client(1, "A", "a"), Client(2, "A", "b"), Client(3, "B", "a")}

Table(rows) == [rows |-> rows, next |-> 1 + Cardinality(rows)]

\* ---------------------------------------------------------------- helpers
Range(s) == {s[i] : i \in DOMAIN s}

Ids(s) == {s[i].id : i \in DOMAIN s}

RemoveAt(s, i) == SubSeq(s, 1, i - 1) \o SubSeq(s, i + 1, Len(s))

RECURSIVE FilterOut(_, _)
\* prev.filter(p => p.id !== id)
FilterOut(s, id) ==
  IF s = <<>> THEN <<>>
  ELSE IF Head(s).id = id THEN FilterOut(Tail(s), id)
       ELSE <<Head(s)>> \o FilterOut(Tail(s), id)

\* A query without .order(): any row may come before any other.
Before_unordered(ord, a, b) == TRUE

\* .order(column): row a may come before row b.
Before(ord, a, b) ==
  CASE ord = "name" -> NameRank[a.name] <= NameRank[b.name]
    [] ord = "entry_date" -> a.entry_date >= b.entry_date
    [] OTHER -> a.id <= b.id

\* All the orderings of the rows S that the query's .order() may return; a
\* query without .order() feeds a sum, so one ordering stands for all.
Ordered(ord, S) ==
  LET n == Cardinality(S) IN
  {s \in [1..n -> S] :
     /\ \A i, j \in 1..n : i # j => s[i] # s[j]
     /\ \A i, j \in 1..n : i < j => Before(ord, s[i], s[j])}

\* ---------------------------------------------------------------- money
\* A form value is a decimal number of euros, kept here in thousandths of a
\* euro so that 0.004 and 0.005 exist; NaN is what valueAsNumber gives for an
\* empty field.
NaN == 999999

\* An input without the step attribute: any number goes through.
StepOk_any(d) == TRUE

\* <input type="number" step="0.01">: the browser refuses to submit a value
\* that is not a multiple of the step.
StepOk(d) == d = NaN \/ d % 10 = 0

\* z.number().positive(): rejects NaN, zero and negatives.
ZodPositive(d) == d # NaN /\ d > 0

\* Math.round(Number(price) * 100): a half rounds towards +infinity, and NaN
\* stays NaN.
ToCents(d) == IF d = NaN THEN NaN ELSE (d + 5) \div 10

\* ---------------------------------------------------------------- requests
\* A request: the verb, the table, the user the issuing handler held, the
\* .eq('id', ..) and .eq('user_id', ..) filters (0 and NoUser when the call
\* has none), the .like('entry_date', ..) month (0 when none), the .order()
\* column, the payload, what the awaiting handler does next, and the snapshot
\* the handler keeps for a rollback.  `orphan`: the component that awaits the
\* response has been unmounted.  `overtaken` is history: a fetch issued later
\* has already been applied.
Op(k, t, u, fid, fuser, row, cont, snap) ==
  [kind |-> k, table |-> t, user |-> u, fid |-> fid, fuser |-> fuser, month |-> 0,
   order |-> IF t = "financial_entries" THEN "entry_date" ELSE "name",
   row |-> row, cont |-> cont, snap |-> snap,
   stage |-> "sent", err |-> FALSE, data |-> <<>>, orphan |-> FALSE,
   overtaken |-> FALSE]

\* The rows a request's filters select.
Matching(T, o) ==
  {r \in T : /\ (o.fid # 0 => r.id = o.fid)
             /\ (o.fuser # NoUser => r.user_id = o.fuser)
             /\ (o.month # 0 => MonthOf(r.entry_date) = o.month)}

\* .update(values): the payload's columns replace the row's; the key and the
\* owner are the row's own.
Patched(r, row) ==
  [f \in DOMAIN r |-> IF f \in {"id", "user_id"} THEN r[f] ELSE row[f]]

Done(o, e, d) == [o EXCEPT !.stage = "done", !.err = e, !.data = d]

\* The remote service rejects request i, or is unreachable: nothing changes.
Gateway_reject(i) ==
  /\ ops[i].stage = "sent"
  /\ ops' = [ops EXCEPT ![i] = Done(ops[i], TRUE, <<>>)]
  /\ UNCHANGED db

\* The remote service executes request i against its table.
Gateway_execute(i) ==
  LET o == ops[i]
      T == db[o.table].rows IN
  /\ o.stage = "sent"
  /\ CASE o.kind = "select" ->
            /\ \E d \in Ordered(o.order, Matching(T, o)) :
                 ops' = [ops EXCEPT ![i] = Done(o, FALSE, d)]
            /\ UNCHANGED db
       [] o.kind = "insert" ->
            /\ db[o.table].next <= MaxId
            /\ db' = [db EXCEPT ![o.table] =
                        [rows |-> T \cup {[o.row EXCEPT !.id = db[o.table].next]},
                         next |-> db[o.table].next + 1]]
            /\ ops' = [ops EXCEPT ![i] = Done(o, FALSE, <<>>)]
       [] o.kind = "update" ->
            /\ db' = [db EXCEPT ![o.table].rows =
                        (T \ Matching(T, o)) \cup
                        {Patched(r, o.row) : r \in Matching(T, o)}]
            /\ ops' = [ops EXCEPT ![i] = Done(o, FALSE, <<>>)]
       [] o.kind = "delete" ->
            /\ db' = [db EXCEPT ![o.table].rows = T \ Matching(T, o)]
            /\ ops' = [ops EXCEPT ![i] = Done(o, FALSE, <<>>)]

Gateway_handle(i) ==
  /\ Gateway_execute(i) \/ Gateway_reject(i)
  /\ UNCHANGED <<user, mounted, pageVars, productsVars, financialVars, clientsVars, seq,
                 response, histVars, metricsVars, settingsVars>>

\* Response i brought data and is applied: every fetch still in flight that
\* was issued before it is now overtaken.
Overtake(i) ==
  [j \in 1..(Len(ops) - 1) |->
     LET k == IF j < i THEN j ELSE j + 1 IN
     IF k < i /\ ops[k].kind = "select"
       THEN [ops[k] EXCEPT !.overtaken = TRUE] ELSE ops[k]]

\* What is left in flight of an unmounted component.  The state setters of
\* an unmounted component do nothing, so the answers to its queries and the
\* failures of its mutations have no effect and are dropped here; a mutation
\* still travelling or acknowledged stays: it changes the table, and its
\* handler goes on after the await.
StillMatters(o) == o.kind # "select" /\ ~(o.stage = "done" /\ o.err)

Orphaned(s) ==
  LET kept == SelectSeq(s, StillMatters) IN
  [i \in DOMAIN kept |-> [kept[i] EXCEPT !.orphan = TRUE]]

\* ---------------------------------------------------------------- the page shell
\* The page renders only the spinner while loading, so no control is there
\* to click.
Page == mounted /\ ~loading

\* The controls of the page itself lie under the overlay of an open dialog.
Base == Page /\ ~isModalOpen /\ ~isConfirmModalOpen

\* Layout.handleLogout(): signOut() leaves no user, navigate('/') unmounts
\* the page.  The next mount starts from the cells' initial values; what the
\* old component awaited stays in flight.
Layout_handleLogout ==
  /\ mounted /\ user # NoUser
  /\ user' = NoUser
  /\ mounted' = FALSE
  /\ loading' = TRUE
  /\ error' = Null
  /\ isModalOpen' = FALSE
  /\ isConfirmModalOpen' = FALSE
  /\ isSubmitting' = FALSE
  /\ formErrors' = FALSE
  /\ ops' = Orphaned(ops)
  /\ ackedDeletes' = {}
  /\ staleWrite' = FALSE
  /\ UNCHANGED <<seq, db, response>>

\* ---------------------------------------------------------------- Products
MsgLoadProducts == "Falha ao carregar produtos"
MsgSaveProduct == "Erro ao salvar o produto"
MsgDeleteProduct == "Erro ao excluir o produto"

notProducts == <<financialVars, clientsVars, response, metricsVars, settingsVars>>

\* fetchProducts(): the part up to the await; `pending` are the requests
\* that stay in flight.
Products_fetchProducts(u, cont, pending) ==
  /\ seq < MaxOps
  /\ loading' = TRUE
  /\ error' = Null
  /\ ops' = Append(pending, Op("select", "products", u, 0, u, NoProduct, cont, <<>>))
  /\ seq' = seq + 1

\* useEffect(() => { if (user) fetchProducts(); }, [user]) with user = u.
Products_useEffect(u) ==
  IF u # NoUser
    THEN Products_fetchProducts(u, "effect", ops)
    ELSE UNCHANGED <<loading, error, ops, seq>>

\* The component mounts; its effect runs with the user of that moment.
Products_mount ==
  /\ ~mounted
  /\ mounted' = TRUE
  /\ Products_useEffect(user)
  /\ UNCHANGED <<user, isModalOpen, isConfirmModalOpen, isSubmitting, formErrors,
                 productsVars, db, histVars, notProducts>>

\* The auth provider delivers the signed-in user (sign-in, or a refreshed
\* session of the same owner): a new `user` object, so the effect runs again.
Products_authChange(u) ==
  /\ user \in {NoUser, u}
  /\ user' = u
  /\ IF mounted THEN Products_useEffect(u) ELSE UNCHANGED <<loading, error, ops, seq>>
  /\ UNCHANGED <<mounted, isModalOpen, isConfirmModalOpen, isSubmitting, formErrors,
                 productsVars, db, histVars, notProducts>>

Products_handleLogout ==
  /\ Layout_handleLogout
  /\ products' = <<>>
  /\ editingProduct' = NoProduct
  /\ productToDelete' = 0
  /\ UNCHANGED notProducts

\* A page that lets only the newest request write: an answer that a later
\* request has overtaken is dropped.
Products_setProducts_newest(o) == IF o.overtaken THEN products ELSE o.data

\* if (data) setProducts(data): what the list becomes when response o is applied.
Products_setProducts(o) == o.data

\* fetchProducts(): the part after the await; when onSubmit awaits it
\* (cont = "reload"), handleCloseModal() follows in the same tick.
Products_fetchProducts_resolve(i) ==
  LET o == ops[i] IN
  /\ o.table = "products" /\ o.kind = "select" /\ o.stage = "done" /\ ~o.orphan
  /\ IF o.err
       THEN /\ ops' = RemoveAt(ops, i)
            /\ UNCHANGED <<products, staleWrite>>
       ELSE /\ products' = Products_setProducts(o)
            /\ ops' = Overtake(i)
            /\ staleWrite' = o.overtaken
  /\ loading' = FALSE
  /\ IF o.cont = "reload"
       THEN /\ isModalOpen' = FALSE
            /\ editingProduct' = NoProduct
            /\ error' = Null
            /\ isSubmitting' = FALSE
            /\ formErrors' = FALSE
       ELSE /\ error' = IF o.err THEN MsgLoadProducts ELSE error
            /\ UNCHANGED <<isModalOpen, editingProduct, isSubmitting, formErrors>>
  /\ UNCHANGED <<user, mounted, isConfirmModalOpen, productToDelete, seq, db,
                 ackedDeletes, notProducts>>

\* The "Novo Produto" button: setIsModalOpen(true).
Products_openNew ==
  /\ Base
  /\ isModalOpen' = TRUE
  /\ UNCHANGED <<user, mounted, loading, error, isConfirmModalOpen, isSubmitting,
                 formErrors, productsVars, ops, seq, db, histVars, notProducts>>

\* The X of the error banner: setError(null).
Products_dismissError ==
  /\ Base /\ error # Null
  /\ error' = Null
  /\ UNCHANGED <<user, mounted, loading, isModalOpen, isConfirmModalOpen, isSubmitting,
                 formErrors, productsVars, ops, seq, db, histVars, notProducts>>

Products_handleEditProduct(p) ==
  /\ Base /\ p \in Range(products)
  /\ editingProduct' = p
  /\ isModalOpen' = TRUE
  /\ formErrors' = FALSE
  /\ UNCHANGED <<user, mounted, loading, error, isConfirmModalOpen, isSubmitting,
                 products, productToDelete, ops, seq, db, histVars, notProducts>>

\* A close that leaves the record being edited in place.
Products_handleCloseModal_keeps ==
  /\ Page /\ isModalOpen
  /\ isModalOpen' = FALSE
  /\ error' = Null
  /\ formErrors' = FALSE
  /\ UNCHANGED <<user, mounted, loading, isConfirmModalOpen, isSubmitting, productsVars,
                 ops, seq, db, histVars, notProducts>>

\* handleCloseModal(): the X, "Cancelar" and the backdrop of the modal.
Products_handleCloseModal ==
  /\ Page /\ isModalOpen
  /\ isModalOpen' = FALSE
  /\ editingProduct' = NoProduct
  /\ error' = Null
  /\ formErrors' = FALSE
  /\ UNCHANGED <<user, mounted, loading, isConfirmModalOpen, isSubmitting, products,
                 productToDelete, ops, seq, db, histVars, notProducts>>

\* The same with an optimistic insert: the new record is shown before the
\* service has answered.
Products_onSubmit_optimistic(n, d) ==
  IF user = NoUser
    THEN UNCHANGED <<error, isSubmitting, products, ops, seq>>
    ELSE /\ error' = Null
         /\ isSubmitting' = TRUE
         /\ LET productData == Product(0, user, n, ToCents(d)) IN
            /\ IF editingProduct # NoProduct
                 THEN ops' = Append(ops, Op("update", "products", user,
                                            editingProduct.id, user, productData,
                                            "submit", <<>>))
                 ELSE ops' = Append(ops, Op("insert", "products", user, 0, NoUser,
                                            productData, "submit", <<>>))
            /\ products' = Append(products, productData)
         /\ seq' = seq + 1

\* onSubmit(formData): the part up to the await.
Products_onSubmit(n, d) ==
  IF user = NoUser
    THEN UNCHANGED <<error, isSubmitting, products, ops, seq>>
    ELSE /\ error' = Null
         /\ isSubmitting' = TRUE
         /\ LET productData == Product(0, user, n, ToCents(d)) IN
            IF editingProduct # NoProduct
              THEN ops' = Append(ops, Op("update", "products", user, editingProduct.id,
                                         user, productData, "submit", <<>>))
              ELSE ops' = Append(ops, Op("insert", "products", user, 0, NoUser,
                                         productData, "submit", <<>>))
         /\ seq' = seq + 1
         /\ UNCHANGED products

\* The form is submitted: the browser checks the step, zodResolver checks
\* CreateProductSchema, and only then is onSubmit called.  Either refusal
\* leaves a message on the form.  A submit keeps one await in reserve for
\* the reload that follows it.
Products_handleSubmit(n, d) ==
  /\ Page /\ isModalOpen /\ ~isSubmitting
  /\ seq + 1 < MaxOps
  /\ IF StepOk(d) /\ ZodPositive(d)
       THEN /\ Products_onSubmit(n, d)
            /\ formErrors' = FALSE
       ELSE /\ formErrors' = TRUE
            /\ UNCHANGED <<error, isSubmitting, products, ops, seq>>
  /\ UNCHANGED <<user, mounted, loading, isModalOpen, isConfirmModalOpen,
                 editingProduct, productToDelete, db, histVars, notProducts>>

\* onSubmit: the part after the await of the insert or update.
Products_onSubmit_resolve(i) ==
  LET o == ops[i] IN
  /\ o.table = "products" /\ o.kind \in {"insert", "update"} /\ o.stage = "done"
  /\ ~o.orphan
  /\ IF o.err
       THEN /\ error' = MsgSaveProduct
            /\ isSubmitting' = FALSE
            /\ ops' = RemoveAt(ops, i)
            /\ UNCHANGED <<loading, seq>>
       ELSE /\ Products_fetchProducts(o.user, "reload", RemoveAt(ops, i))
            /\ UNCHANGED isSubmitting
  /\ UNCHANGED <<user, mounted, isModalOpen, isConfirmModalOpen, formErrors,
                 productsVars, db, histVars, notProducts>>

Products_requestDeleteProduct(id) ==
  /\ Base /\ id \in Ids(products)
  /\ productToDelete' = id
  /\ isConfirmModalOpen' = TRUE
  /\ UNCHANGED <<user, mounted, loading, error, isModalOpen, isSubmitting, formErrors,
                 products, editingProduct, ops, seq, db, histVars, notProducts>>

\* "Cancelar" in the confirmation dialog: setIsConfirmModalOpen(false).
Products_cancelDelete ==
  /\ Page /\ isConfirmModalOpen
  /\ isConfirmModalOpen' = FALSE
  /\ UNCHANGED <<user, mounted, loading, error, isModalOpen, isSubmitting, formErrors,
                 productsVars, ops, seq, db, histVars, notProducts>>

\* A delete that can be triggered while the confirmation dialog is closed.
Products_handleDeleteProduct_direct ==
  /\ Page
  /\ seq < MaxOps
  /\ IF user = NoUser \/ productToDelete = 0
       THEN UNCHANGED vars
       ELSE /\ products' = FilterOut(products, productToDelete)
            /\ isConfirmModalOpen' = FALSE
            /\ error' = Null
            /\ ops' = Append(ops, Op("delete", "products", user, productToDelete, user,
                                     NoProduct, "delete", products))
            /\ seq' = seq + 1
            /\ UNCHANGED <<user, mounted, loading, isModalOpen, isSubmitting,
                           formErrors, editingProduct, productToDelete, db, histVars,
                           notProducts>>

\* handleDeleteProduct(): the part up to the await.
Products_handleDeleteProduct ==
  /\ Page /\ isConfirmModalOpen
  /\ seq < MaxOps
  /\ IF user = NoUser \/ productToDelete = 0
       THEN UNCHANGED vars
       ELSE /\ products' = FilterOut(products, productToDelete)
            /\ isConfirmModalOpen' = FALSE
            /\ error' = Null
            /\ ops' = Append(ops, Op("delete", "products", user, productToDelete, user,
                                     NoProduct, "delete", products))
            /\ seq' = seq + 1
            /\ UNCHANGED <<user, mounted, loading, isModalOpen, isSubmitting,
                           formErrors, editingProduct, productToDelete, db, histVars,
                           notProducts>>

\* A rollback that only takes the optimistic removal back.
Products_rollback_none(o) == products

\* setProducts(originalProducts): what the list becomes when the delete that
\* response o answers has failed.
Products_rollback(o) == o.snap

\* handleDeleteProduct(): the part after the await (catch and finally).
Products_handleDeleteProduct_resolve(i) ==
  LET o == ops[i] IN
  /\ o.table = "products" /\ o.kind = "delete" /\ o.stage = "done" /\ ~o.orphan
  /\ ops' = RemoveAt(ops, i)
  /\ IF o.err
       THEN /\ error' = MsgDeleteProduct
            /\ products' = Products_rollback(o)
            /\ UNCHANGED ackedDeletes
       ELSE /\ ackedDeletes' = ackedDeletes \cup {o.fid}
            /\ UNCHANGED <<error, products>>
  /\ productToDelete' = 0
  /\ UNCHANGED <<user, mounted, loading, isModalOpen, isConfirmModalOpen, isSubmitting,
                 formErrors, editingProduct, seq, db, staleWrite, notProducts>>

\* A response arrives for a handler whose component is unmounted: its state
\* setters do nothing, but onSubmit goes on to `await fetchProducts()` with
\* the user it captured.  That query goes out (one more await); its answer has
\* no effect, so it is not kept in `ops`.
Products_unmounted_resolve(i) ==
  LET o == ops[i] IN
  /\ o.table = "products" /\ o.stage = "done" /\ o.orphan
  /\ ops' = RemoveAt(ops, i)
  /\ IF o.kind \in {"insert", "update"} /\ ~o.err
       THEN /\ seq < MaxOps
            /\ seq' = seq + 1
       ELSE UNCHANGED seq
  /\ UNCHANGED <<user, mounted, pageVars, productsVars, db, histVars, notProducts>>

\* Prices a user may type, in thousandths of a euro.
PriceInputs == {-10, 0, 4, 10, NaN}

NextProducts ==
  \/ Products_mount
  \/ \E u \in Owners : Products_authChange(u)
  \/ Products_handleLogout
  \/ \E i \in DOMAIN ops : Products_fetchProducts_resolve(i)
  \/ Products_openNew
  \/ Products_dismissError
  \/ \E p \in Range(products) : Products_handleEditProduct(p)
  \/ Products_handleCloseModal
  \/ \E n \in Names, d \in PriceInputs : Products_handleSubmit(n, d)
  \/ \E i \in DOMAIN ops : Products_onSubmit_resolve(i)
  \/ \E id \in Ids(products) : Products_requestDeleteProduct(id)
  \/ Products_cancelDelete
  \/ Products_handleDeleteProduct
  \/ \E i \in DOMAIN ops : Products_handleDeleteProduct_resolve(i)
  \/ \E i \in DOMAIN ops : Products_unmounted_resolve(i)
  \/ \E i \in DOMAIN ops : Gateway_handle(i)

\* ---------------------------------------------------------------- Financial
MsgLoadFinancial == "Falha ao carregar dados financeiros"
MsgSaveEntry == "Erro ao salvar a entrada financeira"
MsgDeleteEntry == "Erro ao excluir a entrada financeira"

EntryTypes == {"receita", "despesa"}

notFinancial == <<productsVars, clientsVars, response, metricsVars, settingsVars>>

NoKpis == [monthlyRevenue |-> 0, monthlyExpenses |-> 0, netProfit |-> 0]

RECURSIVE SumOfType(_, _)
\* The reduce of fetchKPIs, one accumulator: the amounts of the entries of
\* type t, added up.
SumOfType(s, t) ==
  IF s = <<>> THEN 0
  ELSE (IF Head(s).type = t THEN Head(s).amount ELSE 0) + SumOfType(Tail(s), t)

\* A net profit that is not let below zero.
Financial_setKpis_clamped(monthlyEntries) ==
  LET r == SumOfType(monthlyEntries, "receita")
      e == SumOfType(monthlyEntries, "despesa") IN
  [monthlyRevenue |-> r, monthlyExpenses |-> e, netProfit |-> IF r > e THEN r - e ELSE 0]

\* setKpis({...kpisData, netProfit: monthlyRevenue - monthlyExpenses}) on the
\* month's entries.
Financial_setKpis(monthlyEntries) ==
  LET r == SumOfType(monthlyEntries, "receita")
      e == SumOfType(monthlyEntries, "despesa") IN
  [monthlyRevenue |-> r, monthlyExpenses |-> e, netProfit |-> r - e]

\* fetchEntries(): the query.
Financial_fetchEntries(u, cont) ==
  Op("select", "financial_entries", u, 0, u, NoEntry, cont, <<>>)

\* The query without the filter on the month.
Financial_fetchKPIs_anyMonth(u, cont) ==
  [Op("select", "financial_entries", u, 0, u, NoEntry, cont, <<>>) EXCEPT !.order = "id"]

\* fetchKPIs(): the query, on the entries of the current month.
Financial_fetchKPIs(u, cont) ==
  [Op("select", "financial_entries", u, 0, u, NoEntry, cont, <<>>)
     EXCEPT !.month = MonthOf(Today), !.order = "id"]

\* fetchEntriesAndKPIs(): the part up to the await of Promise.all; the two
\* queries go out together and sit next to each other in `ops`.
Financial_fetchEntriesAndKPIs(u, cont, pending) ==
  /\ seq < MaxOps
  /\ loading' = TRUE
  /\ error' = Null
  /\ ops' = pending \o <<Financial_fetchEntries(u, cont), Financial_fetchKPIs(u, cont)>>
  /\ seq' = seq + 1

\* useEffect(() => { if (user) fetchEntriesAndKPIs(); }, [user]) with user = u.
Financial_useEffect(u) ==
  IF u # NoUser
    THEN Financial_fetchEntriesAndKPIs(u, "effect", ops)
    ELSE UNCHANGED <<loading, error, ops, seq>>

Financial_mount ==
  /\ ~mounted
  /\ mounted' = TRUE
  /\ Financial_useEffect(user)
  /\ UNCHANGED <<user, isModalOpen, isConfirmModalOpen, isSubmitting, formErrors,
                 financialVars, db, histVars, notFinancial>>

Financial_authChange(u) ==
  /\ user \in {NoUser, u}
  /\ user' = u
  /\ IF mounted THEN Financial_useEffect(u) ELSE UNCHANGED <<loading, error, ops, seq>>
  /\ UNCHANGED <<mounted, isModalOpen, isConfirmModalOpen, isSubmitting, formErrors,
                 financialVars, db, histVars, notFinancial>>

Financial_handleLogout ==
  /\ Layout_handleLogout
  /\ entries' = <<>>
  /\ kpis' = NoKpis
  /\ editingEntry' = NoEntry
  /\ entryToDelete' = 0
  /\ UNCHANGED notFinancial

\* fetchEntriesAndKPIs(): the part after the await.  Promise.all settles when
\* both queries have answered, or as soon as one has failed; i is the
\* fetchEntries query and i + 1 the fetchKPIs query of the same call.  When
\* onSubmit awaits it (cont = "reload"), handleCloseModal() follows in the
\* same tick.
Financial_fetchEntriesAndKPIs_resolve(i) ==
  LET o == ops[i]
      k == ops[i + 1]
      failed == (o.stage = "done" /\ o.err) \/ (k.stage = "done" /\ k.err) IN
  /\ o.table = "financial_entries" /\ o.kind = "select" /\ ~o.orphan
  /\ o.cont \in {"effect", "reload"} /\ o.month = 0
  /\ failed \/ (o.stage = "done" /\ k.stage = "done")
  /\ ops' = RemoveAt(RemoveAt(ops, i + 1), i)
  /\ IF failed
       THEN UNCHANGED <<entries, kpis>>
       ELSE /\ entries' = o.data
            /\ kpis' = Financial_setKpis(k.data)
  /\ loading' = FALSE
  /\ IF o.cont = "reload"
       THEN /\ isModalOpen' = FALSE
            /\ editingEntry' = NoEntry
            /\ error' = Null
            /\ isSubmitting' = FALSE
            /\ formErrors' = FALSE
       ELSE /\ error' = IF failed THEN MsgLoadFinancial ELSE error
            /\ UNCHANGED <<isModalOpen, editingEntry, isSubmitting, formErrors>>
  /\ UNCHANGED <<user, mounted, isConfirmModalOpen, entryToDelete, seq, db, histVars,
                 notFinancial>>

\* The "Nova Entrada" button: setIsModalOpen(true).
Financial_openNew ==
  /\ Base
  /\ isModalOpen' = TRUE
  /\ UNCHANGED <<user, mounted, loading, error, isConfirmModalOpen, isSubmitting,
                 formErrors, financialVars, ops, seq, db, histVars, notFinancial>>

Financial_handleEditEntry(e) ==
  /\ Base /\ e \in Range(entries)
  /\ editingEntry' = e
  /\ isModalOpen' = TRUE
  /\ formErrors' = FALSE
  /\ UNCHANGED <<user, mounted, loading, error, isConfirmModalOpen, isSubmitting,
                 entries, kpis, entryToDelete, ops, seq, db, histVars, notFinancial>>

Financial_handleCloseModal ==
  /\ Page /\ isModalOpen
  /\ isModalOpen' = FALSE
  /\ editingEntry' = NoEntry
  /\ error' = Null
  /\ formErrors' = FALSE
  /\ UNCHANGED <<user, mounted, loading, isConfirmModalOpen, isSubmitting, entries,
                 kpis, entryToDelete, ops, seq, db, histVars, notFinancial>>

\* onSubmit(formData): the part up to the await.  The update is filtered by
\* the entry's id alone.
Financial_onSubmit(t, d) ==
  IF user = NoUser
    THEN UNCHANGED <<error, isSubmitting, ops, seq>>
    ELSE /\ error' = Null
         /\ isSubmitting' = TRUE
         /\ LET entryData == FinancialEntry(0, user, ToCents(d), t, Today) IN
            IF editingEntry # NoEntry
              THEN ops' = Append(ops, Op("update", "financial_entries", user,
                                         editingEntry.id, NoUser, entryData, "submit",
                                         <<>>))
              ELSE ops' = Append(ops, Op("insert", "financial_entries", user, 0, NoUser,
                                         entryData, "submit", <<>>))
         /\ seq' = seq + 1

\* The form is submitted: the browser checks the step of the amount,
\* zodResolver checks CreateFinancialEntrySchema, and only then is onSubmit
\* called.  A submit keeps one await in reserve for the reload.
Financial_handleSubmit(t, d) ==
  /\ Page /\ isModalOpen /\ ~isSubmitting
  /\ seq + 1 < MaxOps
  /\ IF StepOk(d) /\ ZodPositive(d)
       THEN /\ Financial_onSubmit(t, d)
            /\ formErrors' = FALSE
       ELSE /\ formErrors' = TRUE
            /\ UNCHANGED <<error, isSubmitting, ops, seq>>
  /\ UNCHANGED <<user, mounted, loading, isModalOpen, isConfirmModalOpen,
                 financialVars, db, histVars, notFinancial>>

\* onSubmit: the part after the await of the insert or update.
Financial_onSubmit_resolve(i) ==
  LET o == ops[i] IN
  /\ o.table = "financial_entries" /\ o.kind \in {"insert", "update"}
  /\ o.stage = "done" /\ ~o.orphan
  /\ IF o.err
       THEN /\ error' = MsgSaveEntry
            /\ isSubmitting' = FALSE
            /\ ops' = RemoveAt(ops, i)
            /\ UNCHANGED <<loading, seq>>
       ELSE /\ Financial_fetchEntriesAndKPIs(o.user, "reload", RemoveAt(ops, i))
            /\ UNCHANGED isSubmitting
  /\ UNCHANGED <<user, mounted, isModalOpen, isConfirmModalOpen, formErrors,
                 financialVars, db, histVars, notFinancial>>

Financial_requestDeleteEntry(id) ==
  /\ Base /\ id \in Ids(entries)
  /\ entryToDelete' = id
  /\ isConfirmModalOpen' = TRUE
  /\ UNCHANGED <<user, mounted, loading, error, isModalOpen, isSubmitting, formErrors,
                 entries, kpis, editingEntry, ops, seq, db, histVars, notFinancial>>

\* "Cancelar" in the confirmation dialog: setIsConfirmModalOpen(false).
Financial_cancelDelete ==
  /\ Page /\ isConfirmModalOpen
  /\ isConfirmModalOpen' = FALSE
  /\ UNCHANGED <<user, mounted, loading, error, isModalOpen, isSubmitting, formErrors,
                 financialVars, ops, seq, db, histVars, notFinancial>>

\* The same with the optimistic policy: the entry leaves the list at once.
Financial_handleDeleteEntry_optimistic ==
  /\ Page /\ isConfirmModalOpen
  /\ seq + 1 < MaxOps
  /\ IF user = NoUser \/ entryToDelete = 0
       THEN UNCHANGED vars
       ELSE /\ isConfirmModalOpen' = FALSE
            /\ error' = Null
            /\ ops' = Append(ops, Op("delete", "financial_entries", user, entryToDelete,
                                     user, NoEntry, "delete", <<>>))
            /\ seq' = seq + 1
            /\ entries' = FilterOut(entries, entryToDelete)
            /\ UNCHANGED <<user, mounted, loading, isModalOpen, isSubmitting,
                           formErrors, kpis, editingEntry, entryToDelete, db, histVars,
                           notFinancial>>

\* handleDeleteEntry(): the part up to the await of the delete.  A delete
\* keeps one await in reserve for the fetchKPIs() that follows it.
Financial_handleDeleteEntry ==
  /\ Page /\ isConfirmModalOpen
  /\ seq + 1 < MaxOps
  /\ IF user = NoUser \/ entryToDelete = 0
       THEN UNCHANGED vars
       ELSE /\ isConfirmModalOpen' = FALSE
            /\ error' = Null
            /\ ops' = Append(ops, Op("delete", "financial_entries", user, entryToDelete,
                                     user, NoEntry, "delete", <<>>))
            /\ seq' = seq + 1
            /\ entries' = entries
            /\ UNCHANGED <<user, mounted, loading, isModalOpen, isSubmitting,
                           formErrors, kpis, editingEntry, entryToDelete, db, histVars,
                           notFinancial>>

\* handleDeleteEntry(): the part after the await of the delete.  A failure
\* goes to catch and finally; an acknowledgement filters the list and goes
\* on to `await fetchKPIs()`.
Financial_handleDeleteEntry_resolve(i) ==
  LET o == ops[i] IN
  /\ o.table = "financial_entries" /\ o.kind = "delete" /\ o.stage = "done"
  /\ ~o.orphan
  /\ IF o.err
       THEN /\ error' = MsgDeleteEntry
            /\ entryToDelete' = 0
            /\ ops' = RemoveAt(ops, i)
            /\ UNCHANGED <<entries, seq, ackedDeletes>>
       ELSE /\ seq < MaxOps
            /\ entries' = FilterOut(entries, o.fid)
            /\ ackedDeletes' = ackedDeletes \cup {o.fid}
            /\ ops' = Append(RemoveAt(ops, i), Financial_fetchKPIs(o.user, "afterDelete"))
            /\ seq' = seq + 1
            /\ UNCHANGED <<error, entryToDelete>>
  /\ UNCHANGED <<user, mounted, loading, isModalOpen, isConfirmModalOpen, isSubmitting,
                 formErrors, kpis, editingEntry, db, staleWrite, notFinancial>>

\* handleDeleteEntry(): the part after the await of fetchKPIs().
Financial_fetchKPIs_resolve(i) ==
  LET o == ops[i] IN
  /\ o.table = "financial_entries" /\ o.kind = "select" /\ o.cont = "afterDelete"
  /\ o.stage = "done" /\ ~o.orphan
  /\ ops' = RemoveAt(ops, i)
  /\ IF o.err
       THEN /\ error' = MsgDeleteEntry
            /\ UNCHANGED kpis
       ELSE /\ kpis' = Financial_setKpis(o.data)
            /\ UNCHANGED error
  /\ entryToDelete' = 0
  /\ UNCHANGED <<user, mounted, loading, isModalOpen, isConfirmModalOpen, isSubmitting,
                 formErrors, entries, editingEntry, seq, db, histVars, notFinancial>>

\* A response arrives for a handler whose component is unmounted: its state
\* setters do nothing, but onSubmit goes on to fetchEntriesAndKPIs() and
\* handleDeleteEntry to fetchKPIs(), with the user they captured.  Those
\* queries go out (one more await); their answers have no effect, so they
\* are not kept in `ops`.
Financial_unmounted_resolve(i) ==
  LET o == ops[i] IN
  /\ o.table = "financial_entries" /\ o.stage = "done" /\ o.orphan
  /\ ops' = RemoveAt(ops, i)
  /\ IF o.kind \in {"insert", "update", "delete"} /\ ~o.err
       THEN /\ seq < MaxOps
            /\ seq' = seq + 1
       ELSE UNCHANGED seq
  /\ UNCHANGED <<user, mounted, pageVars, financialVars, db, histVars, notFinancial>>

NextFinancial ==
  \/ Financial_mount
  \/ \E u \in Owners : Financial_authChange(u)
  \/ Financial_handleLogout
  \/ \E i \in DOMAIN ops : Financial_fetchEntriesAndKPIs_resolve(i)
  \/ Financial_openNew
  \/ \E e \in Range(entries) : Financial_handleEditEntry(e)
  \/ Financial_handleCloseModal
  \/ \E t \in EntryTypes, d \in PriceInputs : Financial_handleSubmit(t, d)
  \/ \E i \in DOMAIN ops : Financial_onSubmit_resolve(i)
  \/ \E id \in Ids(entries) : Financial_requestDeleteEntry(id)
  \/ Financial_cancelDelete
  \/ Financial_handleDeleteEntry
  \/ \E i \in DOMAIN ops : Financial_handleDeleteEntry_resolve(i)
  \/ \E i \in DOMAIN ops : Financial_fetchKPIs_resolve(i)
  \/ \E i \in DOMAIN ops : Financial_unmounted_resolve(i)
  \/ \E i \in DOMAIN ops : Gateway_handle(i)

\* ---------------------------------------------------------------- Clients
notClients == <<productsVars, financialVars, response, metricsVars, settingsVars>>

\* fetchClients(): the part up to the await.  The page has no error cell.
Clients_fetchClients(u, cont, pending) ==
  /\ seq < MaxOps
  /\ loading' = TRUE
  /\ ops' = Append(pending, Op("select", "clients", u, 0, u, NoClient, cont, <<>>))
  /\ seq' = seq + 1

\* useEffect(() => { if (user) fetchClients(); }, [user]) with user = u.
Clients_useEffect(u) ==
  IF u # NoUser
    THEN Clients_fetchClients(u, "effect", ops)
    ELSE UNCHANGED <<loading, ops, seq>>

Clients_mount ==
  /\ ~mounted
  /\ mounted' = TRUE
  /\ Clients_useEffect(user)
  /\ UNCHANGED <<user, error, isModalOpen, isConfirmModalOpen, isSubmitting, formErrors,
                 clientsVars, db, histVars, notClients>>

Clients_authChange(u) ==
  /\ user \in {NoUser, u}
  /\ user' = u
  /\ IF mounted THEN Clients_useEffect(u) ELSE UNCHANGED <<loading, ops, seq>>
  /\ UNCHANGED <<mounted, error, isModalOpen, isConfirmModalOpen, isSubmitting,
                 formErrors, clientsVars, db, histVars, notClients>>

Clients_handleLogout ==
  /\ Layout_handleLogout
  /\ clients' = <<>>
  /\ editingClient' = NoClient
  /\ UNCHANGED notClients

\* A fetch that clears the loading flag at the end of its try block and not
\* in a finally.
Clients_fetchClients_resolve_noFinally(i) ==
  LET o == ops[i] IN
  /\ o.table = "clients" /\ o.kind = "select" /\ o.stage = "done" /\ ~o.orphan
  /\ ops' = RemoveAt(ops, i)
  /\ clients' = IF o.err THEN clients ELSE o.data
  /\ loading' = IF o.err THEN loading ELSE FALSE
  /\ IF o.cont = "reload"
       THEN /\ isModalOpen' = FALSE
            /\ editingClient' = NoClient
            /\ isSubmitting' = FALSE
            /\ formErrors' = FALSE
       ELSE UNCHANGED <<isModalOpen, editingClient, isSubmitting, formErrors>>
  /\ UNCHANGED <<user, mounted, error, isConfirmModalOpen, seq, db, histVars,
                 notClients>>

\* fetchClients(): the part after the await; a failure is written to the
\* console and nowhere else.  When onSubmit awaits it (cont = "reload"),
\* handleCloseModal() follows in the same tick.
Clients_fetchClients_resolve(i) ==
  LET o == ops[i] IN
  /\ o.table = "clients" /\ o.kind = "select" /\ o.stage = "done" /\ ~o.orphan
  /\ ops' = RemoveAt(ops, i)
  /\ clients' = IF o.err THEN clients ELSE o.data
  /\ loading' = FALSE
  /\ IF o.cont = "reload"
       THEN /\ isModalOpen' = FALSE
            /\ editingClient' = NoClient
            /\ isSubmitting' = FALSE
            /\ formErrors' = FALSE
       ELSE UNCHANGED <<isModalOpen, editingClient, isSubmitting, formErrors>>
  /\ UNCHANGED <<user, mounted, error, isConfirmModalOpen, seq, db, histVars,
                 notClients>>

\* The "Novo Cliente" buttons: setIsModalOpen(true).
Clients_openNew ==
  /\ Base
  /\ isModalOpen' = TRUE
  /\ UNCHANGED <<user, mounted, loading, error, isConfirmModalOpen, isSubmitting,
                 formErrors, clientsVars, ops, seq, db, histVars, notClients>>

Clients_handleEditClient(c) ==
  /\ Base /\ c \in Range(clients)
  /\ editingClient' = c
  /\ isModalOpen' = TRUE
  /\ formErrors' = FALSE
  /\ UNCHANGED <<user, mounted, loading, error, isConfirmModalOpen, isSubmitting,
                 clients, ops, seq, db, histVars, notClients>>

Clients_handleCloseModal ==
  /\ Page /\ isModalOpen
  /\ isModalOpen' = FALSE
  /\ editingClient' = NoClient
  /\ formErrors' = FALSE
  /\ UNCHANGED <<user, mounted, loading, error, isConfirmModalOpen, isSubmitting,
                 clients, ops, seq, db, histVars, notClients>>

\* onSubmit(formData): the part up to the await.
Clients_onSubmit(n) ==
  IF user = NoUser
    THEN UNCHANGED <<isSubmitting, ops, seq>>
    ELSE /\ isSubmitting' = TRUE
         /\ IF editingClient # NoClient
              THEN ops' = Append(ops, Op("update", "clients", user, editingClient.id,
                                         user, Client(0, user, n), "submit", <<>>))
              ELSE ops' = Append(ops, Op("insert", "clients", user, 0, NoUser,
                                         Client(0, user, n), "submit", <<>>))
         /\ seq' = seq + 1

\* The form is submitted: zodResolver checks CreateClientSchema (the name is
\* required), and only then is onSubmit called.  A submit keeps one await in
\* reserve for the reload.
Clients_handleSubmit(n) ==
  /\ Page /\ isModalOpen /\ ~isSubmitting
  /\ seq + 1 < MaxOps
  /\ IF n # ""
       THEN /\ Clients_onSubmit(n)
            /\ formErrors' = FALSE
       ELSE /\ formErrors' = TRUE
            /\ UNCHANGED <<isSubmitting, ops, seq>>
  /\ UNCHANGED <<user, mounted, loading, error, isModalOpen, isConfirmModalOpen,
                 clientsVars, db, histVars, notClients>>

\* onSubmit: the part after the await of the insert or update; a failure is
\* written to the console and nowhere else.
Clients_onSubmit_resolve(i) ==
  LET o == ops[i] IN
  /\ o.table = "clients" /\ o.kind \in {"insert", "update"} /\ o.stage = "done"
  /\ ~o.orphan
  /\ IF o.err
       THEN /\ isSubmitting' = FALSE
            /\ ops' = RemoveAt(ops, i)
            /\ UNCHANGED <<loading, seq>>
       ELSE /\ Clients_fetchClients(o.user, "reload", RemoveAt(ops, i))
            /\ UNCHANGED isSubmitting
  /\ UNCHANGED <<user, mounted, error, isModalOpen, isConfirmModalOpen, formErrors,
                 clientsVars, db, histVars, notClients>>

\* handleDeleteClient(clientId): window.confirm() answers confirmDelete; the
\* part up to the await.  A delete keeps one await in reserve for the
\* reload.
Clients_handleDeleteClient(clientId, confirmDelete) ==
  /\ Base /\ clientId \in Ids(clients)
  /\ seq + 1 < MaxOps
  /\ IF user = NoUser \/ ~confirmDelete
       THEN UNCHANGED <<ops, seq>>
       ELSE /\ ops' = Append(ops, Op("delete", "clients", user, clientId, user,
                                     NoClient, "delete", <<>>))
            /\ seq' = seq + 1
  /\ UNCHANGED <<user, mounted, pageVars, clientsVars, db, histVars, notClients>>

\* handleDeleteClient: the part after the await of the delete; a failure is
\* written to the console and nowhere else.
Clients_handleDeleteClient_resolve(i) ==
  LET o == ops[i] IN
  /\ o.table = "clients" /\ o.kind = "delete" /\ o.stage = "done" /\ ~o.orphan
  /\ IF o.err
       THEN /\ ops' = RemoveAt(ops, i)
            /\ UNCHANGED <<loading, seq, ackedDeletes>>
       ELSE /\ Clients_fetchClients(o.user, "afterDelete", RemoveAt(ops, i))
            /\ ackedDeletes' = ackedDeletes \cup {o.fid}
  /\ UNCHANGED <<user, mounted, error, isModalOpen, isConfirmModalOpen, isSubmitting,
                 formErrors, clientsVars, db, staleWrite, notClients>>

\* A response arrives for a handler whose component is unmounted: its state
\* setters do nothing, but onSubmit and handleDeleteClient go on to
\* `await fetchClients()` with the user they captured.  That query goes out
\* (one more await); its answer has no effect, so it is not kept in `ops`.
Clients_unmounted_resolve(i) ==
  LET o == ops[i] IN
  /\ o.table = "clients" /\ o.stage = "done" /\ o.orphan
  /\ ops' = RemoveAt(ops, i)
  /\ IF o.kind \in {"insert", "update", "delete"} /\ ~o.err
       THEN /\ seq < MaxOps
            /\ seq' = seq + 1
       ELSE UNCHANGED seq
  /\ UNCHANGED <<user, mounted, pageVars, clientsVars, db, histVars, notClients>>

\* Names a user may type; the empty one is refused by the form.
NameInputs == Names \cup {""}

NextClients ==
  \/ Clients_mount
  \/ \E u \in Owners : Clients_authChange(u)
  \/ Clients_handleLogout
  \/ \E i \in DOMAIN ops : Clients_fetchClients_resolve(i)
  \/ Clients_openNew
  \/ \E c \in Range(clients) : Clients_handleEditClient(c)
  \/ Clients_handleCloseModal
  \/ \E n \in NameInputs : Clients_handleSubmit(n)
  \/ \E i \in DOMAIN ops : Clients_onSubmit_resolve(i)
  \/ \E id \in Ids(clients), b \in BOOLEAN : Clients_handleDeleteClient(id, b)
  \/ \E i \in DOMAIN ops : Clients_handleDeleteClient_resolve(i)
  \/ \E i \in DOMAIN ops : Clients_unmounted_resolve(i)
  \/ \E i \in DOMAIN ops : Gateway_handle(i)

\* ---------------------------------------------------------------- worker
\* The session a request carries: authMiddleware turns its cookie into the
\* route's `user`, an owner or nobody.
Sessions == Owners \cup {NoUser}

Unauthorized(route) == [route |-> route, status |-> 401, body |-> <<>>, changes |-> 0]

notWorker == <<user, mounted, pageVars, productsVars, financialVars, clientsVars, ops,
               seq, histVars, metricsVars, settingsVars>>

\* The rows of the clients table that belong to session s.
Worker_clientsOf(s) == {r \in db.clients.rows : r.user_id = s}

\* GET /api/clients
Worker_clients_get(s) ==
  /\ IF s = NoUser
       THEN response' = Unauthorized("GET")
       ELSE \E d \in Ordered("name", Worker_clientsOf(s)) :
              response' = [route |-> "GET", status |-> 200, body |-> d, changes |-> 0]
  /\ UNCHANGED <<db, notWorker>>

\* POST /api/clients
Worker_clients_post(s, n) ==
  /\ IF s = NoUser
       THEN /\ response' = Unauthorized("POST")
            /\ UNCHANGED db
       ELSE /\ db.clients.next <= MaxId
            /\ db' = [db EXCEPT !.clients =
                        [rows |-> db.clients.rows \cup {Client(db.clients.next, s, n)},
                         next |-> db.clients.next + 1]]
            /\ response' = [route |-> "POST", status |-> 201,
                            body |-> <<db.clients.next>>, changes |-> 1]
  /\ UNCHANGED notWorker

\* PUT /api/clients/:id: UPDATE ... WHERE id = ? AND user_id = ?, then
\* {success: true} whatever .run() reports; `changes` is the number of rows
\* the statement changed.
Worker_clients_put(s, id, n) ==
  /\ IF s = NoUser
       THEN /\ response' = Unauthorized("PUT")
            /\ UNCHANGED db
       ELSE LET hit == {r \in Worker_clientsOf(s) : r.id = id} IN
            /\ db' = [db EXCEPT !.clients.rows =
                        (@ \ hit) \cup {[r EXCEPT !.name = n] : r \in hit}]
            /\ response' = [route |-> "PUT", status |-> 200, body |-> <<>>,
                            changes |-> Cardinality(hit)]
  /\ UNCHANGED notWorker

\* DELETE /api/clients/:id: DELETE ... WHERE id = ? AND user_id = ?, then
\* {success: true} whatever .run() reports.
Worker_clients_delete(s, id) ==
  /\ IF s = NoUser
       THEN /\ response' = Unauthorized("DELETE")
            /\ UNCHANGED db
       ELSE LET hit == {r \in Worker_clientsOf(s) : r.id = id} IN
            /\ db' = [db EXCEPT !.clients.rows = @ \ hit]
            /\ response' = [route |-> "DELETE", status |-> 200, body |-> <<>>,
                            changes |-> Cardinality(hit)]
  /\ UNCHANGED notWorker

NextWorker ==
  \/ \E s \in Sessions : Worker_clients_get(s)
  \/ \E s \in Sessions, n \in Names : Worker_clients_post(s, n)
  \/ \E s \in Sessions, id \in 1..MaxId, n \in Names : Worker_clients_put(s, id, n)
  \/ \E s \in Sessions, id \in 1..MaxId : Worker_clients_delete(s, id)

\* ---------------------------------------------------------------- Dashboard
\* Days in each month of the (non-leap) year.
DaysIn == <<31, 28, 31, 30, 31, 30, 31, 31, 30, 31, 30, 31>>

\* The calendar date one day before d.
DayBefore(d) ==
  LET m == MonthOf(d) % 100 IN
  IF d % 100 > 1 THEN d - 1
  ELSE IF m > 1 THEN ((d - (d % 100)) - 100) + DaysIn[m - 1]
  ELSE (d - 10000) + 1130

RECURSIVE DaysAgo(_, _)
\* new Date(Date.now() - n * 24 * 60 * 60 * 1000).toISOString().split('T')[0]
DaysAgo(d, n) == IF n = 0 THEN d ELSE DaysAgo(DayBefore(d), n - 1)

\* slice(0, 5) and LIMIT 5
TopN == 5

\* The days the weekly chart and the rankings look back.
WeekBack == 6
MonthBack == 30

Appointment(i, u, s, p, c, d) ==
  [id |-> i, user_id |-> u, service |-> s, professional |-> p, price |-> c,
   appointment_date |-> d]

\* The appointments the table may hold: two of one service today, six
\* services in all, one appointment booked for tomorrow, one older than the
\* rankings look back, one of another owner.
AppointmentPool ==
  {Appointment(1, "A", "s1", "p1", 333, Today),
   Appointment(2, "A", "s1", "p2", 334, Today),
   Appointment(3, "A", "s2", "p1", 100, DayBefore(Today)),
   Appointment(4, "A", "s3", "p1", 100, DaysAgo(Today, MonthBack)),
   Appointment(5, "A", "s4", "p2", 100, DayBefore(Today)),
   Appointment(6, "A", "s5", "p1", 100, DayBefore(Today)),
   Appointment(7, "A", "s6", "p1", 100, DayBefore(Today)),
   Appointment(8, "A", "s2", "p2", 100, Today + 1),
   Appointment(9, "A", "s3", "p2", 100, DaysAgo(Today, MonthBack + 1)),
   Appointment(10, "B", "s1", "p1", 500, Today)}

\* The financial entries the table may hold: revenue and a larger expense
\* today, a day with an expense only, revenue dated tomorrow, revenue older
\* than the week, the same day of another year, one of another owner.
EntryPool ==
  {FinancialEntry(1, "A", 500, "receita", Today),
   FinancialEntry(2, "A", 700, "despesa", Today),
   FinancialEntry(3, "A", 300, "receita", DaysAgo(Today, 2)),
   FinancialEntry(4, "A", 200, "despesa", DaysAgo(Today, 5)),
   FinancialEntry(5, "A", 400, "receita", Today + 1),
   FinancialEntry(6, "A", 100, "receita", DaysAgo(Today, WeekBack + 1)),
   FinancialEntry(7, "A", 250, "receita", Today + 10000),
   FinancialEntry(8, "B", 900, "receita", Today)}

\* A query without .order() returns its rows in an order of the service's
\* choosing; two orders stand for all of them.
RowOrders == {"asc", "desc"}

RECURSIVE SortById(_)
SortById(S) ==
  IF S = {} THEN <<>>
  ELSE LET m == CHOOSE x \in S : \A y \in S : x.id <= y.id IN
       <<m>> \o SortById(S \ {m})

Reverse(s) == [i \in DOMAIN s |-> s[Len(s) + 1 - i]]

RowsIn(order, S) == IF order = "asc" THEN SortById(S) ELSE Reverse(SortById(S))

\* A JavaScript number that is a quotient of integers, kept exact.
Ratio(n, d) == [num |-> n, den |-> d]

RECURSIVE SumOf(_, _)
\* data.reduce((sum, row) => sum + row[field], 0)
SumOf(data, field) ==
  IF data = <<>> THEN 0 ELSE Head(data)[field] + SumOf(Tail(data), field)

RECURSIVE CountBy(_, _, _)
\* data.reduce((acc, row) => { acc[row[field]] = (acc[row[field]] || 0) + 1 }, {}),
\* then Object.entries(acc): the labels in the order they first occur.
CountBy(data, field, acc) ==
  IF data = <<>> THEN acc
  ELSE LET k == Head(data)[field]
           at == {i \in DOMAIN acc : acc[i].key = k} IN
       CountBy(Tail(data), field,
               IF at = {} THEN Append(acc, [key |-> k, count |-> 1])
               ELSE [i \in DOMAIN acc |->
                       IF i \in at THEN [acc[i] EXCEPT !.count = @ + 1] ELSE acc[i]])

RECURSIVE EarningsByDay(_, _)
\* earningsByDay[entry.entry_date] = (earningsByDay[entry.entry_date] || 0) + entry.amount,
\* then Object.entries(earningsByDay).map(...)
EarningsByDay(data, acc) ==
  IF data = <<>> THEN acc
  ELSE LET k == Head(data).entry_date
           at == {i \in DOMAIN acc : acc[i].entry_date = k} IN
       EarningsByDay(Tail(data),
                     IF at = {} THEN Append(acc, [entry_date |-> k,
                                                  earnings |-> Head(data).amount])
                     ELSE [i \in DOMAIN acc |->
                             IF i \in at
                               THEN [acc[i] EXCEPT !.earnings = @ + Head(data).amount]
                               ELSE acc[i]])

RECURSIVE InsertByCount(_, _)
InsertByCount(s, x) ==
  IF s = <<>> THEN <<x>>
  ELSE IF Head(s).count >= x.count THEN <<Head(s)>> \o InsertByCount(Tail(s), x)
       ELSE <<x>> \o s

RECURSIVE SortByCount(_)
\* .sort((a, b) => b.count - a.count): descending, ties keep their order.
SortByCount(s) ==
  IF s = <<>> THEN <<>>
  ELSE InsertByCount(SortByCount(SubSeq(s, 1, Len(s) - 1)), s[Len(s)])

\* .slice(0, n)
Slice(s, n) == SubSeq(s, 1, IF Len(s) < n THEN Len(s) ELSE n)

\* useState<KPI | null>(null): the kpis cell holds no figures (the empty
\* sequence) or one record of figures.
NoDashboard ==
  [kpis |-> <<>>, todayAppointments |-> <<>>, weeklyEarnings |-> <<>>,
   popularServices |-> <<>>, professionalPerformance |-> <<>>]

\* The owner's rows of a table.
OwnedBy(u, table) == {r \in db[table].rows : r.user_id = u}

\* fetchKPIs(): today's appointments of the user, counted and summed; the
\* average is the quotient as it comes.
Dashboard_fetchKPIs(u, order) ==
  LET appointmentsToday ==
        RowsIn(order, {r \in OwnedBy(u, "appointments") : r.appointment_date = Today})
      dailyAppointments == Len(appointmentsToday)
      dailyEarnings == SumOf(appointmentsToday, "price") IN
  [dailyEarnings |-> dailyEarnings,
   dailyAppointments |-> dailyAppointments,
   avgTicket |-> IF dailyAppointments > 0 THEN Ratio(dailyEarnings, dailyAppointments)
                 ELSE Ratio(0, 1)]

\* fetchTodayAppointments()
Dashboard_fetchTodayAppointments(u, order) ==
  RowsIn(order, {r \in OwnedBy(u, "appointments") : r.appointment_date = Today})

\* fetchWeeklyEarnings(): .eq('type', 'receita').gte('entry_date', sevenDaysAgo)
Dashboard_fetchWeeklyEarnings(u, order) ==
  LET sevenDaysAgo == DaysAgo(Today, WeekBack)
      data == RowsIn(order, {r \in OwnedBy(u, "financial_entries") :
                               r.type = "receita" /\ r.entry_date >= sevenDaysAgo}) IN
  EarningsByDay(data, <<>>)

\* fetchPopularServices(): .gte('appointment_date', thirtyDaysAgo), counted
\* by service, sorted, the first five.
Dashboard_fetchPopularServices(u, order) ==
  LET thirtyDaysAgo == DaysAgo(Today, MonthBack)
      data == RowsIn(order, {r \in OwnedBy(u, "appointments") :
                               r.appointment_date >= thirtyDaysAgo})
      serviceCounts == CountBy(data, "service", <<>>) IN
  Slice(SortByCount(serviceCounts), TopN)

\* fetchProfessionalPerformance(): the same by professional, all of them.
Dashboard_fetchProfessionalPerformance(u, order) ==
  LET thirtyDaysAgo == DaysAgo(Today, MonthBack)
      data == RowsIn(order, {r \in OwnedBy(u, "appointments") :
                               r.appointment_date >= thirtyDaysAgo})
      profCounts == CountBy(data, "professional", <<>>) IN
  SortByCount(profCounts)

notDashboard == <<isModalOpen, isConfirmModalOpen, isSubmitting, formErrors, productsVars,
                  clientsVars, ops, seq, db, response, histVars, form, sent, rendered,
                  settingsVars>>

\* The five queries of Promise.all, by the cell each one feeds.
Queries == {"kpis", "todayAppointments", "weeklyEarnings", "popularServices",
            "professionalPerformance"}

\* What the five queries return for user u.
Dashboard_data(u, order) ==
  [kpis |-> <<Dashboard_fetchKPIs(u, order)>>,
   todayAppointments |-> Dashboard_fetchTodayAppointments(u, order),
   weeklyEarnings |-> Dashboard_fetchWeeklyEarnings(u, order),
   popularServices |-> Dashboard_fetchPopularServices(u, order),
   professionalPerformance |-> Dashboard_fetchProfessionalPerformance(u, order)]

\* A load that waits for all five to settle and applies each answer that
\* came.
Dashboard_fetchDashboardData_settled(order, failed) ==
  /\ mounted
  /\ IF user = NoUser
       THEN UNCHANGED <<loading, dashboard>>
       ELSE /\ loading' = FALSE
            /\ dashboard' = [q \in Queries |->
                               IF q \in failed THEN dashboard[q]
                               ELSE Dashboard_data(user, order)[q]]
  /\ UNCHANGED <<user, mounted, error, financialVars, notDashboard>>

\* fetchDashboardData(): the five queries of Promise.all and what follows
\* them; `failed` are the queries that throw.  The tables do not change in
\* between, so the await is taken in one step.  Promise.all rejects when one
\* query throws: the setters are skipped, the catch writes to the console,
\* and the finally clears the loading flag.
Dashboard_fetchDashboardData(order, failed) ==
  /\ mounted
  /\ IF user = NoUser
       THEN UNCHANGED <<loading, dashboard>>
       ELSE /\ loading' = FALSE
            /\ IF failed # {}
                 THEN UNCHANGED dashboard
                 ELSE dashboard' = Dashboard_data(user, order)
  /\ UNCHANGED <<user, mounted, error, financialVars, notDashboard>>

\* Financial.fetchEntriesAndKPIs() on the same tables, taken in one step:
\* the list and the month's figures.
Financial_fetchEntriesAndKPIs_apply(failed) ==
  /\ mounted
  /\ IF user = NoUser
       THEN UNCHANGED <<loading, error, entries, kpis>>
       ELSE /\ loading' = FALSE
            /\ IF failed
                 THEN /\ error' = MsgLoadFinancial
                      /\ UNCHANGED <<entries, kpis>>
                 ELSE /\ error' = Null
                      /\ \E d \in Ordered("entry_date",
                                          Matching(db.financial_entries.rows,
                                                   Financial_fetchEntries(user, "effect"))) :
                           entries' = d
                      /\ \E m \in Ordered("id",
                                          Matching(db.financial_entries.rows,
                                                   Financial_fetchKPIs(user, "effect"))) :
                           kpis' = Financial_setKpis(m)
  /\ UNCHANGED <<user, mounted, editingEntry, entryToDelete, dashboard, notDashboard>>

NextDashboard ==
  \E order \in RowOrders, failed \in SUBSET Queries :
    Dashboard_fetchDashboardData(order, failed)

\* ---------------------------------------------------------------- worker: metrics routes
RECURSIVE SortAsc(_)
\* ORDER BY entry_date ASC over a set of dates.
SortAsc(D) ==
  IF D = {} THEN <<>>
  ELSE LET m == CHOOSE x \in D : \A y \in D : x <= y IN <<m>> \o SortAsc(D \ {m})

Ok(route, body) == [route |-> route, status |-> 200, body |-> body, changes |-> 0]

\* GET /api/dashboard/kpis: SUM(amount) of today's revenue entries, COUNT(*)
\* and AVG(price) of today's appointments.
Worker_dashboard_kpis(s) ==
  /\ IF s = NoUser
       THEN response' = Unauthorized("GET /api/dashboard/kpis")
       ELSE LET revenueToday == SortById({r \in OwnedBy(s, "financial_entries") :
                                           r.type = "receita" /\ r.entry_date = Today})
                appointmentsToday == SortById({r \in OwnedBy(s, "appointments") :
                                                r.appointment_date = Today})
                count == Len(appointmentsToday) IN
            response' = Ok("GET /api/dashboard/kpis",
                           [dailyEarnings |-> SumOf(revenueToday, "amount"),
                            dailyAppointments |-> count,
                            avgTicket |-> IF count > 0
                                            THEN Ratio(SumOf(appointmentsToday, "price"),
                                                       count)
                                            ELSE Ratio(0, 1)])
  /\ UNCHANGED <<db, notWorker>>

\* GET /api/dashboard/weekly-earnings: every entry of the last seven days,
\* GROUP BY entry_date, SUM(CASE WHEN type = 'receita' THEN amount ELSE 0 END).
Worker_dashboard_weeklyEarnings(s) ==
  /\ IF s = NoUser
       THEN response' = Unauthorized("GET /api/dashboard/weekly-earnings")
       ELSE LET inWindow == {r \in OwnedBy(s, "financial_entries") :
                               /\ r.entry_date >= DaysAgo(Today, WeekBack)
                               /\ r.entry_date <= Today}
                days == SortAsc({r.entry_date : r \in inWindow}) IN
            response' = Ok("GET /api/dashboard/weekly-earnings",
                           [i \in DOMAIN days |->
                              [entry_date |-> days[i],
                               earnings |->
                                 SumOf(SortById({r \in inWindow :
                                                   /\ r.entry_date = days[i]
                                                   /\ r.type = "receita"}), "amount")]])
  /\ UNCHANGED <<db, notWorker>>

\* GET /api/dashboard/popular-services: GROUP BY service ORDER BY count DESC
\* LIMIT 5 over appointment_date >= DATE('now', '-30 days').
Worker_dashboard_popularServices(s, order) ==
  /\ IF s = NoUser
       THEN response' = Unauthorized("GET /api/dashboard/popular-services")
       ELSE LET data == RowsIn(order, {r \in OwnedBy(s, "appointments") :
                                        r.appointment_date >= DaysAgo(Today, MonthBack)}) IN
            response' = Ok("GET /api/dashboard/popular-services",
                           Slice(SortByCount(CountBy(data, "service", <<>>)), TopN))
  /\ UNCHANGED <<db, notWorker>>

\* GET /api/dashboard/professional-performance: the same by professional,
\* without LIMIT.
Worker_dashboard_professionalPerformance(s, order) ==
  /\ IF s = NoUser
       THEN response' = Unauthorized("GET /api/dashboard/professional-performance")
       ELSE LET data == RowsIn(order, {r \in OwnedBy(s, "appointments") :
                                        r.appointment_date >= DaysAgo(Today, MonthBack)}) IN
            response' = Ok("GET /api/dashboard/professional-performance",
                           SortByCount(CountBy(data, "professional", <<>>)))
  /\ UNCHANGED <<db, notWorker>>

\* GET /api/financial/kpis: the month's SUM(amount) by type, and their
\* difference.
Worker_financial_kpis(s) ==
  /\ IF s = NoUser
       THEN response' = Unauthorized("GET /api/financial/kpis")
       ELSE LET ofMonth == SortById({r \in OwnedBy(s, "financial_entries") :
                                      MonthOf(r.entry_date) = MonthOf(Today)})
                monthlyRevenue == SumOfType(ofMonth, "receita")
                monthlyExpenses == SumOfType(ofMonth, "despesa") IN
            response' = Ok("GET /api/financial/kpis",
                           [monthlyRevenue |-> monthlyRevenue,
                            monthlyExpenses |-> monthlyExpenses,
                            netProfit |-> monthlyRevenue - monthlyExpenses])
  /\ UNCHANGED <<db, notWorker>>

NextMetricsRoutes ==
  \/ \E s \in Sessions : Worker_dashboard_kpis(s)
  \/ \E s \in Sessions : Worker_dashboard_weeklyEarnings(s)
  \/ \E s \in Sessions, order \in RowOrders : Worker_dashboard_popularServices(s, order)
  \/ \E s \in Sessions, order \in RowOrders :
       Worker_dashboard_professionalPerformance(s, order)

\* The month's figures, from the Financial page and from the worker.
NextFinancialKpis ==
  \/ \E failed \in BOOLEAN : Financial_fetchEntriesAndKPIs_apply(failed)
  \/ \E s \in Sessions : Worker_financial_kpis(s)

\* ---------------------------------------------------------------- Products: form and table row
MaxQuantity == 7     \* largest stock quantity of a rendered row

\* Prices a stored product may have, in cents.
StoredPrices == {1, 5, 10, 99, 100, 101, 250, 1050}

\* A product whose quantity is null or undefined.
NoQuantity == -1

\* Stock quantities a stored product may have; the column is optional.
Quantities == (0..MaxQuantity) \cup {NoQuantity}

\* What the user may type in the price field: the values the form refuses,
\* and every amount of a stored price.
TypedPrices == PriceInputs \cup {c * 10 : c \in StoredPrices}

\* The form shows cents as they are stored: the division is forgotten.
FromCents_raw(c) == c * 1000

\* price: product.price / 100: cents to the decimal the form shows, in
\* thousandths of a euro.
FromCents(c) == c * 10

\* formatCurrency(value): value / 100 with two fraction digits, pt-PT, EUR.
formatCurrency(value) ==
  LET abs == IF value < 0 THEN 0 - value ELSE value IN
  [negative |-> value < 0, euros |-> abs \div 100, cents |-> abs % 100,
   currency |-> "EUR"]

\* The decimal a formatted amount reads as, in thousandths of a euro.
ParseCurrency(text) ==
  LET abs == (text.euros * 100 + text.cents) * 10 IN
  IF text.negative THEN 0 - abs ELSE abs

\* A threshold that leaves the boundary out.
isLowStock_below(quantity) == (IF quantity = NoQuantity THEN 0 ELSE quantity) < 5

\* isLowStock(quantity): (quantity ?? 0) <= 5
isLowStock(quantity) == (IF quantity = NoQuantity THEN 0 ELSE quantity) <= 5

NoForm == [price |-> 0, origin |-> 0]
NoRow ==
  [price |-> 0, text |-> formatCurrency(0), quantity |-> NoQuantity, lowStock |-> TRUE]

notMoney == <<user, mounted, loading, error, isModalOpen, isConfirmModalOpen,
              isSubmitting, productsVars, financialVars, clientsVars, ops, seq, db,
              response, histVars, dashboard, settingsVars>>

\* handleEditProduct(product): reset({..., price: product.price / 100}).
\* `origin` is history: the stored price the field was filled from.
Products_reset(c) ==
  /\ form' = [price |-> FromCents(c), origin |-> c]
  /\ formErrors' = FALSE
  /\ UNCHANGED <<sent, rendered, notMoney>>

\* The user types a price into the field.
Products_typePrice(d) ==
  /\ form' = [price |-> d, origin |-> 0]
  /\ UNCHANGED <<formErrors, sent, rendered, notMoney>>

\* handleSubmit(onSubmit) down to productData: the step and schema checks,
\* then price: Math.round(Number(formData.price) * 100).
Products_productData ==
  /\ IF StepOk(form.price) /\ ZodPositive(form.price)
       THEN /\ sent' = ToCents(form.price)
            /\ formErrors' = FALSE
       ELSE /\ formErrors' = TRUE
            /\ UNCHANGED sent
  /\ UNCHANGED <<form, rendered, notMoney>>

\* A row of the products table is rendered: formatCurrency(product.price)
\* and the low-stock badge.
Products_renderRow(c, q) ==
  /\ rendered' = [price |-> c, text |-> formatCurrency(c), quantity |-> q,
                  lowStock |-> isLowStock(q)]
  /\ UNCHANGED <<form, formErrors, sent, notMoney>>

NextMoney ==
  \/ \E c \in StoredPrices : Products_reset(c)
  \/ \E d \in TypedPrices : Products_typePrice(d)
  \/ Products_productData
  \/ \E c \in StoredPrices, q \in Quantities : Products_renderRow(c, q)

\* ---------------------------------------------------------------- business hours
\* day_of_week: Sunday and Monday of 0..6.
Days == {0, 1}

MaxRequests == 2     \* requests of the worker's route between their two statements

\* start_time of a day; end_time goes with it.
Times == {"09:00", "13:00"}

BusinessHours(id, u, d, t) ==
  [id |-> id, user_id |-> u, day_of_week |-> d, start_time |-> t]

\* The empty table.  `unique` says whether the table was created with a
\* unique index on (user_id, day_of_week).
NoBusinessHours == [rows |-> {}, next |-> 1, unique |-> FALSE]

notSettings == <<user, mounted, pageVars, productsVars, financialVars, clientsVars, ops,
                 seq, db, histVars, metricsVars>>

\* WHERE user_id = ? AND day_of_week = ?
Worker_businessHoursOf(u, d) ==
  {r \in business_settings.rows : r.user_id = u /\ r.day_of_week = d}

\* POST /api/settings/business up to its second await: the DELETE statement
\* has run, the INSERT has not been sent.
Worker_settings_business_post(s, d, t) ==
  /\ business_settings.next + Len(requests) <= MaxId
  /\ Len(requests) < MaxRequests
  /\ IF s = NoUser
       THEN /\ response' = Unauthorized("POST")
            /\ UNCHANGED settingsVars
       ELSE /\ business_settings' =
                 [business_settings EXCEPT !.rows = @ \ Worker_businessHoursOf(s, d)]
            /\ requests' =
                 Append(requests, [user_id |-> s, day_of_week |-> d, start_time |-> t])
            /\ UNCHANGED response
  /\ UNCHANGED notSettings

\* POST /api/settings/business from its second statement on: the INSERT and
\* the answer {id: last_row_id}.  With a unique index the INSERT of a day the
\* owner already has throws, and the route answers 500.
Worker_settings_business_post_insert(i) ==
  LET q == requests[i] IN
  /\ requests' = RemoveAt(requests, i)
  /\ IF business_settings.unique /\ Worker_businessHoursOf(q.user_id, q.day_of_week) # {}
       THEN /\ response' = [route |-> "POST", status |-> 500, body |-> <<>>,
                            changes |-> 0]
            /\ UNCHANGED business_settings
       ELSE /\ business_settings' =
                 [business_settings EXCEPT
                    !.rows = @ \cup {BusinessHours(business_settings.next, q.user_id,
                                                   q.day_of_week, q.start_time)},
                    !.next = @ + 1]
            /\ response' = [route |-> "POST", status |-> 201,
                            body |-> <<business_settings.next>>, changes |-> 1]
  /\ UNCHANGED notSettings

\* Settings, useEffect([user]): Promise.all([fetchBusinessHours(),
\* fetchExceptions()]).finally(() => setLoading(false)).  Each of the two
\* catches its own error, so the flag is cleared whether or not they failed;
\* what they fetched fills the form and the exceptions list.
Settings_useEffect ==
  /\ mounted /\ user # NoUser
  /\ loading
  /\ loading' = FALSE
  /\ UNCHANGED <<user, mounted, error, isModalOpen, isConfirmModalOpen, isSubmitting,
                 formErrors, productsVars, financialVars, clientsVars, ops, seq, db,
                 response, histVars, metricsVars, settingsVars>>

\* Settings.onSubmitHours(data): one upsert of every day of the form with
\* onConflict (user_id, day_of_week); the reload that follows refills the
\* form, which is the input `hours` here.  The statement needs the unique
\* index to name its conflict target: without it, or when the request fails,
\* the error goes to the console and nothing is written.
Settings_onSubmitHours(hours, failed) ==
  LET missing == {d \in Days : Worker_businessHoursOf(user, d) = {}}
      kept == {r \in business_settings.rows : r.user_id # user \/ r.day_of_week \notin Days}
  IN
  /\ Page /\ user # NoUser
  /\ business_settings.next + Len(requests) + Cardinality(missing) <= MaxId + 1
  /\ IF failed \/ ~business_settings.unique
       THEN UNCHANGED business_settings
       ELSE business_settings' =
              [business_settings EXCEPT
                 !.rows = kept
                    \cup {[r EXCEPT !.start_time = hours[r.day_of_week]] :
                            r \in business_settings.rows \ kept}
                    \cup {BusinessHours(business_settings.next
                                          + Cardinality({e \in missing : e < d}),
                                        user, d, hours[d]) : d \in missing},
                 !.next = @ + Cardinality(missing)]
  /\ UNCHANGED <<requests, response, notSettings>>

NextSettings ==
  \/ Settings_useEffect
  \/ \E s \in Sessions, d \in Days, t \in Times : Worker_settings_business_post(s, d, t)
  \/ \E i \in DOMAIN requests : Worker_settings_business_post_insert(i)
  \/ \E hours \in [Days -> Times], failed \in BOOLEAN : Settings_onSubmitHours(hours, failed)

\* ---------------------------------------------------------------- initial states
\* The cells of a freshly mounted page, nothing in flight.
InitCells ==
  /\ loading = TRUE
  /\ error = Null
  /\ isModalOpen = FALSE
  /\ isConfirmModalOpen = FALSE
  /\ isSubmitting = FALSE
  /\ formErrors = FALSE
  /\ products = <<>>
  /\ editingProduct = NoProduct
  /\ productToDelete = 0
  /\ entries = <<>>
  /\ kpis = NoKpis
  /\ editingEntry = NoEntry
  /\ entryToDelete = 0
  /\ clients = <<>>
  /\ editingClient = NoClient
  /\ ops = <<>>
  /\ seq = 0
  /\ response = [route |-> "", status |-> 0, body |-> <<>>, changes |-> 0]
  /\ ackedDeletes = {}
  /\ staleWrite = FALSE
  /\ dashboard = NoDashboard
  /\ form = NoForm
  /\ sent = 0
  /\ rendered = NoRow
  /\ requests = <<>>

Init ==
  /\ InitCells
  /\ user = NoUser
  /\ mounted = FALSE
  /\ db = [products |-> Table(SeedProducts),
           financial_entries |-> Table(SeedEntries),
           clients |-> Table(SeedClients),
           appointments |-> Table({})]
  /\ business_settings = NoBusinessHours

MaxEntries == 2      \* financial entries in the table of a metrics run

\* The financial_entries tables of a metrics run: any few rows of the pool.
EntrySets == {E \in SUBSET EntryPool : Cardinality(E) <= MaxEntries}

\* The appointments tables of a metrics run: the first k rows of the pool,
\* of which at most one has been deleted since.
AppointmentSets ==
  {{r \in AppointmentPool : r.id <= k /\ r.id # gone} :
     k \in 0..Cardinality(AppointmentPool), gone \in 0..Cardinality(AppointmentPool)}

MetricTables ==
  {[products |-> Table(SeedProducts),
    financial_entries |-> [rows |-> E, next |-> 1 + Cardinality(EntryPool)],
    clients |-> Table(SeedClients),
    appointments |-> [rows |-> A, next |-> 1 + Cardinality(AppointmentPool)]] :
     E \in EntrySets, A \in AppointmentSets}

\* The Dashboard (or the Financial page) is mounted for a signed-in owner.
InitDashboard ==
  /\ InitCells
  /\ user \in Owners
  /\ mounted = TRUE
  /\ db \in MetricTables
  /\ business_settings = NoBusinessHours

\* The worker serves requests over the same tables.
InitMetricsRoutes ==
  /\ InitCells
  /\ user = NoUser
  /\ mounted = FALSE
  /\ db \in MetricTables
  /\ business_settings = NoBusinessHours

SpecProducts == Init /\ [][NextProducts]_vars

SpecFinancial == Init /\ [][NextFinancial]_vars

SpecClients == Init /\ [][NextClients]_vars

SpecWorker == Init /\ [][NextWorker]_vars

\* The Clients page when every request is answered and every answer is
\* taken: the service settles what is in flight, and the event loop runs the
\* continuation of each settled await.
SpecClientsFair ==
  /\ SpecClients
  /\ WF_vars(\E i \in DOMAIN ops : Gateway_handle(i))
  /\ WF_vars(\E i \in DOMAIN ops : Clients_fetchClients_resolve(i))
  /\ WF_vars(\E i \in DOMAIN ops : Clients_onSubmit_resolve(i))
  /\ WF_vars(\E i \in DOMAIN ops : Clients_handleDeleteClient_resolve(i))

SpecDashboard == InitDashboard /\ [][NextDashboard]_vars

SpecMetricsRoutes == InitMetricsRoutes /\ [][NextMetricsRoutes]_vars

SpecFinancialKpis == InitDashboard /\ [][NextFinancialKpis]_vars

SpecMoney == Init /\ [][NextMoney]_vars

\* The Settings page of a signed-in owner and the worker's route over one
\* business_settings table, created with or without the unique index.
InitSettings ==
  /\ InitCells
  /\ user \in Owners
  /\ mounted = TRUE
  /\ db = [products |-> Table(SeedProducts),
           financial_entries |-> Table(SeedEntries),
           clients |-> Table(SeedClients),
           appointments |-> Table({})]
  /\ business_settings \in {[NoBusinessHours EXCEPT !.unique = b] : b \in BOOLEAN}

SpecSettings == InitSettings /\ [][NextSettings]_vars

\* ---------------------------------------------------------------- properties

\* C1: every request a page issues on behalf of an owner is scoped by
\* that owner's id: a fetch, an update and a delete are filtered by
\* user_id = owner, and an insert writes user_id = owner.
C1_EveryRequestScoped ==
  \A i \in DOMAIN ops :
    IF ops[i].kind = "insert"
      THEN ops[i].row.user_id = ops[i].user
      ELSE ops[i].fuser = ops[i].user

\* C2: while no authenticated user is present, no page contacts the
\* remote service: a step that makes one more await on it ends with a user
\* present.
C2_NoCallWithoutUser == [][seq' # seq => user' # NoUser]_vars

\* C3: a submit does not touch the in-memory list before the service has
\* answered, and when the insert or update has failed the list after the
\* handler's catch is the list before it.
C3_FailedSubmitLeavesList ==
  [][/\ (\E n \in Names, d \in PriceInputs : Products_handleSubmit(n, d))
          => products' = products
     /\ \A i \in DOMAIN ops :
          (Products_onSubmit_resolve(i) /\ ops[i].err) => products' = products]_vars

\* A failed save is on display and the list is still the fetched one.
C3_Witness ==
  /\ error = MsgSaveProduct
  /\ isModalOpen
  /\ Len(products) = 2

\* C4: an entry leaves the in-memory list of the Financial page only in
\* the step that takes the acknowledgement of its remote delete (or when a
\* fetch replaces the whole list, or the page is left); the confirmation
\* click removes nothing, and a failed delete leaves the list as it was.
C4_PessimisticDelete ==
  [][/\ \/ \E i \in DOMAIN ops : Financial_fetchEntriesAndKPIs_resolve(i)
        \/ Financial_handleLogout
        \/ \A id \in Ids(entries) \ Ids(entries') :
             \E i \in DOMAIN ops :
               /\ Financial_handleDeleteEntry_resolve(i)
               /\ ops[i].fid = id /\ ~ops[i].err
     /\ Financial_handleDeleteEntry => entries' = entries
     /\ \A i \in DOMAIN ops :
          (Financial_handleDeleteEntry_resolve(i) /\ ops[i].err)
            => entries' = entries]_vars

\* A delete has failed and both entries are still listed; nothing was
\* acknowledged.
C4_Witness ==
  /\ error = MsgDeleteEntry
  /\ Ids(entries) = {1, 2}
  /\ ackedDeletes = {}
  /\ entryToDelete = 0

\* C5: the confirmation click removes the product from the in-memory list
\* at once, and when the remote delete has failed the removed product is in
\* the list again, every field as it was before the removal, and the error
\* cell is set.
C5_OptimisticDeleteRollsBack ==
  [][/\ (Products_handleDeleteProduct /\ user # NoUser /\ productToDelete # 0)
          => productToDelete \notin Ids(products')
     /\ \A i \in DOMAIN ops :
          (Products_handleDeleteProduct_resolve(i) /\ ops[i].err)
            => /\ error' = MsgDeleteProduct
               /\ \A p \in Range(ops[i].snap) :
                    p.id = ops[i].fid => p \in Range(products')]_vars

\* A delete has failed, and both seeded products of owner A are listed with
\* their fields.
C5_Witness ==
  /\ error = MsgDeleteProduct
  /\ ackedDeletes = {}
  /\ Range(products) = {r \in SeedProducts : r.user_id = "A"}

\* C6: once the remote delete of a record has been acknowledged to the
\* page, the record is never in the in-memory list again.
C6_DeletedIsTerminal == ackedDeletes \cap Ids(products) = {}

\* C7: a fetch that resolves with data becomes the visible list whenever
\* it resolves, also when a fetch issued after it has been applied before:
\* the last one to resolve wins, whatever the issue order.
C7_LastResolvedWins ==
  [][\A i \in DOMAIN ops :
       (Products_fetchProducts_resolve(i) /\ ~ops[i].err)
         => products' = ops[i].data]_vars

\* The list on display came from a fetch issued before the one applied
\* earlier, and it is not what the table holds for the user now.
C7_Witness ==
  /\ staleWrite
  /\ user # NoUser
  /\ Range(products) # {r \in db.products.rows : r.user_id = user}

\* C8: every failed request leaves a user-visible error: the step in
\* which a mounted page takes a failed answer ends with the error cell set.
C8_NoFailureSwallowed ==
  [][\A i \in DOMAIN ops :
       (/\ ops[i].err
        /\ \/ Clients_fetchClients_resolve(i)
           \/ Clients_onSubmit_resolve(i)
           \/ Clients_handleDeleteClient_resolve(i))
         => error' # Null]_vars

\* C9: an update or a delete of an id that matches no record is not
\* answered as a success.
C9_AbsentIdIsAnError ==
  (response.route \in {"PUT", "DELETE"} /\ response.changes = 0)
    => response.status # 200

C12_AvgTicketRoundedHalfUp ==
  \A i \in DOMAIN dashboard.kpis :
    LET k == dashboard.kpis[i]
        halfUp == IF k.dailyAppointments = 0 THEN 0
                  ELSE (2 * k.dailyEarnings + k.dailyAppointments)
                         \div (2 * k.dailyAppointments) IN
    k.avgTicket.num = halfUp * k.avgTicket.den

\* C13: the daily figures answered for an owner are the number of that
\* owner's appointments on the reference date and the sum of the prices of
\* exactly those appointments.
C13_DailyKpisFromAppointments ==
  [][\A s \in Owners :
       Worker_dashboard_kpis(s) =>
         LET ofDay == SortById({r \in OwnedBy(s, "appointments") :
                                 r.appointment_date = Today}) IN
         /\ response'.body.dailyAppointments = Len(ofDay)
         /\ response'.body.dailyEarnings = SumOf(ofDay, "price")]_vars

\* C14: the net profit shown by the Financial page and answered by the
\* worker is the month's revenue minus the month's expenses, negative when
\* the expenses are the larger.
C14_NetProfitIsDifference ==
  /\ kpis.netProfit = kpis.monthlyRevenue - kpis.monthlyExpenses
  /\ (response.route = "GET /api/financial/kpis" /\ response.status = 200)
       => response.body.netProfit =
            response.body.monthlyRevenue - response.body.monthlyExpenses

\* Revenue of 500 and expenses of 700 this month: page and worker both
\* report a net profit of -200.
C14_Witness ==
  /\ kpis = [monthlyRevenue |-> 500, monthlyExpenses |-> 700, netProfit |-> -200]
  /\ response.route = "GET /api/financial/kpis"
  /\ response.status = 200
  /\ response.body.netProfit = -200

\* C15: the monthly revenue and the monthly expenses are the sums of the
\* amounts of exactly the owner's entries of that type dated in the
\* reference month: entries of other months, years or owners add nothing.
C15_MonthlySumsExact ==
  [][LET ofMonth(u) == SortById({r \in db'.financial_entries.rows :
                                   /\ r.user_id = u
                                   /\ MonthOf(r.entry_date) = MonthOf(Today)}) IN
     /\ (user' # NoUser /\ ~loading' /\ error' = Null)
          => /\ kpis'.monthlyRevenue = SumOfType(ofMonth(user'), "receita")
             /\ kpis'.monthlyExpenses = SumOfType(ofMonth(user'), "despesa")
     /\ \A s \in Owners :
          Worker_financial_kpis(s)
            => /\ response'.body.monthlyRevenue = SumOfType(ofMonth(s), "receita")
               /\ response'.body.monthlyExpenses = SumOfType(ofMonth(s), "despesa")]_vars

\* The page shows a revenue of 500 for owner A while the table also holds
\* revenue of another month or of another owner.
C15_Witness ==
  /\ user = "A"
  /\ ~loading
  /\ error = Null
  /\ kpis.monthlyRevenue = 500
  /\ \E r \in db.financial_entries.rows :
       /\ r.type = "receita"
       /\ r.user_id # user \/ MonthOf(r.entry_date) # MonthOf(Today)

\* C16: the weekly earnings hold one group per date on which the owner
\* has at least one revenue entry; a date with expenses only makes no group.
C16_NoGroupWithoutRevenue ==
  [][\A s \in Owners :
       Worker_dashboard_weeklyEarnings(s) =>
         \A i \in DOMAIN response'.body :
           \E r \in OwnedBy(s, "financial_entries") :
             /\ r.type = "receita"
             /\ r.entry_date = response'.body[i].entry_date]_vars

\* C17: the weekly earnings cover the seven days that end on the
\* reference date, both ends included: no group is dated before the window
\* or after the reference date.
C17_WeeklyWindowClosed ==
  \A i \in DOMAIN dashboard.weeklyEarnings :
    /\ dashboard.weeklyEarnings[i].entry_date >= DaysAgo(Today, 6)
    /\ dashboard.weeklyEarnings[i].entry_date <= Today

\* C18: the popular services are at most five, each with the number of
\* the owner's appointments of that service in the thirty days that end on
\* the reference date, in non-increasing order of count, and no service left
\* out has more appointments than a listed one.
C18_PopularServicesOfWindow ==
  LET list == dashboard.popularServices
      inWindow == {r \in OwnedBy(user, "appointments") :
                     /\ r.appointment_date >= DaysAgo(Today, MonthBack)
                     /\ r.appointment_date <= Today}
      count(k) == Cardinality({r \in inWindow : r.service = k})
      listed == {list[i].key : i \in DOMAIN list} IN
  dashboard.kpis # <<>> =>
    /\ Len(list) <= 5
    /\ \A i \in DOMAIN list : list[i].count = count(list[i].key)
    /\ \A i, j \in DOMAIN list : i < j => list[i].count >= list[j].count
    /\ \A r \in inWindow :
         r.service \notin listed => \A i \in DOMAIN list : count(r.service) <= list[i].count

\* C19: the professional performance has one entry for each professional
\* with an appointment of the owner in the thirty days that end on the
\* reference date and no other, in non-increasing order of count, and the
\* counts add up to the number of appointments in that window.
C19_ProfessionalsOfWindow ==
  LET list == dashboard.professionalPerformance
      inWindow == {r \in OwnedBy(user, "appointments") :
                     /\ r.appointment_date >= DaysAgo(Today, MonthBack)
                     /\ r.appointment_date <= Today} IN
  dashboard.kpis # <<>> =>
    /\ {list[i].key : i \in DOMAIN list} = {r.professional : r \in inWindow}
    /\ \A i, j \in DOMAIN list : list[i].key = list[j].key => i = j
    /\ \A i, j \in DOMAIN list : i < j => list[i].count >= list[j].count
    /\ SumOf(list, "count") = Cardinality(inWindow)

\* C20: a product row is flagged as low on stock exactly when its
\* quantity is five or less, a missing quantity counting as zero.
C20_LowStockThreshold ==
  rendered.lowStock <=>
    (IF rendered.quantity = NoQuantity THEN TRUE ELSE rendered.quantity <= 5)

\* A row with exactly five in stock is on display, flagged.
C20_Witness == rendered.quantity = 5 /\ rendered.lowStock

\* C28: a dashboard load in which any of the five queries fails changes
\* none of the dashboard's data cells, and leaves the loading flag false.
C28_LoadAllOrNothing ==
  [][\A order \in RowOrders, failed \in SUBSET Queries :
       (failed # {} /\ user # NoUser)
         => \/ dashboard' = dashboard /\ ~loading'
            \/ ~Dashboard_fetchDashboardData(order, failed)]_vars

\* A first load has failed: the spinner is gone and every data cell is as
\* it was at mount, although the owner has an appointment today.
C28_Witness ==
  /\ ~loading
  /\ dashboard = NoDashboard
  /\ \E r \in OwnedBy(user, "appointments") : r.appointment_date = Today

\* C26: on the Financial page the delete message is set only when the
\* remote delete itself has failed: the step that takes the answer of the
\* KPI refresh following an acknowledged delete never sets it.
C26_DeleteErrorOnlyForDelete ==
  [][\A i \in DOMAIN ops :
       Financial_fetchKPIs_resolve(i)
         => (error' = MsgDeleteEntry => error = MsgDeleteEntry)]_vars

\* C27: in every state of the Financial page the net profit on display
\* is the monthly revenue on display minus the monthly expenses on display.
C27_KpisConsistent == kpis.netProfit = kpis.monthlyRevenue - kpis.monthlyExpenses

\* The page shows a month whose expenses exceed its revenue.
C27_Witness == mounted /\ ~loading /\ kpis.netProfit < 0

\* C30: while the create/edit modal of the Products page is closed no
\* record is being edited, so the modal opened by the "new" button submits
\* an insert; the record being edited is set only by opening it for edit,
\* and a submit sends an update only for that record.
C30_EditModeFollowsModal ==
  [][/\ ~isModalOpen' => editingProduct' = NoProduct
     /\ Products_openNew => editingProduct' = NoProduct
     /\ editingProduct' \notin {editingProduct, NoProduct}
          => Products_handleEditProduct(editingProduct')
     /\ \A n \in Names, d \in PriceInputs :
          (Products_handleSubmit(n, d) /\ ops' # ops)
            => LET o == ops'[Len(ops')] IN
               IF editingProduct = NoProduct
                 THEN o.kind = "insert"
                 ELSE o.kind = "update" /\ o.fid = editingProduct.id]_vars

\* The modal is open with no record being edited, and the insert it
\* submitted is on its way.
C30_Witness ==
  /\ isModalOpen
  /\ editingProduct = NoProduct
  /\ \E i \in DOMAIN ops : ops[i].kind = "insert" /\ ops[i].stage = "sent"

\* C23: a remote delete of a product is issued only by the confirmation
\* click, in a dialog that is open for that product's id, and that id got
\* there by the user asking to delete it; cancelling the dialog issues no
\* request and leaves the list as it is.
C23_DeleteOnlyOnConfirmation ==
  [][/\ \A j \in DOMAIN ops' :
          (/\ ops'[j].kind = "delete"
           /\ ops'[j].stage = "sent"
           /\ \A i \in DOMAIN ops : ops[i].kind = "delete" => ops[i].fid # ops'[j].fid)
            => /\ Products_handleDeleteProduct
               /\ isConfirmModalOpen
               /\ ops'[j].fid = productToDelete
     /\ productToDelete' \notin {productToDelete, 0}
          => Products_requestDeleteProduct(productToDelete')
     /\ Products_cancelDelete => (ops' = ops /\ products' = products)]_vars

\* The delete of the product asked for and confirmed is on its way, and the
\* product is off the list.
C23_Witness ==
  /\ productToDelete # 0
  /\ ~isConfirmModalOpen
  /\ productToDelete \notin Ids(products)
  /\ \E i \in DOMAIN ops :
       ops[i].kind = "delete" /\ ops[i].stage = "sent" /\ ops[i].fid = productToDelete

\* C24: when a product delete has failed, the rollback puts back that
\* product and no other: a product whose own delete is still in flight or
\* has succeeded does not come back with it.
C24_RollbackRestoresOnlyItsOwn ==
  [][\A i \in DOMAIN ops :
       (Products_handleDeleteProduct_resolve(i) /\ ops[i].err)
         => Ids(products') \ Ids(products) \subseteq {ops[i].fid}]_vars

\* C25: whenever the confirmation dialog of the Products page is open
\* for a signed-in user, an id is pending, so that the confirmation click
\* issues a remote delete.
C25_ConfirmationAlwaysDeletes ==
  (Page /\ isConfirmModalOpen /\ user # NoUser) => productToDelete # 0

C29_LoadingClears ==
  /\ []((/\ mounted
         /\ user # NoUser
         /\ \A i \in DOMAIN ops : ops[i].kind # "select" \/ ops[i].orphan)
          => ~loading)
  /\ (mounted /\ user # NoUser /\ loading) ~> (~mounted \/ ~loading)

\* Two fetches of owner A have both failed: nothing is in flight, the list
\* is empty although A has clients, and the spinner is gone.
C29_Witness ==
  /\ mounted
  /\ user = "A"
  /\ ~loading
  /\ ops = <<>>
  /\ seq = 2
  /\ clients = <<>>

\* C21: no owner has two business-hours records of the same weekday, in
\* every state reached by saves of the worker's route and of the Settings page.
C21_OneRecordPerOwnerAndDay ==
  \A u \in Owners, d \in Days : Cardinality(Worker_businessHoursOf(u, d)) <= 1
====
